---- MODULE Spec2Model ----
(***************************************************************************)
(* Signal cache (backend/operations/file_functions.py, utils/constants.py) *)
(* and user-directory management (backend/utils/user_manager.py) of the    *)
(* crucible microscopy backend.                                            *)
(*                                                                         *)
(* The cache is the module-level dict CURRENT_FILE; load_file and          *)
(* get_cached_file read and write its two keys one statement at a time,    *)
(* without any lock, so every read and every write of a key is one step    *)
(* of the calling thread.                                                  *)
(***************************************************************************)
EXTENDS Integers, Sequences, FiniteSets, TLC

\* ---------------------------------------------------------------- bounds
NumThreads == 2
MaxSignals == 2
MaxIndex == 3
NumUsers == 4

Threads == 1..NumThreads
Paths == {"p", "q"}
None == "None"

\* Optional values: <<>> is Python's None, <<v>> is the value v.
Nothing == <<>>
Some(v) == <<v>>
IsNone(o) == o = <<>>
The(o) == o[1]

\* ---------------------------------------------------------------- decoder
\* file_functions.py:110  the format hints, None (auto-detect) first
signal_types_retry == <<"auto", "EMD", "EDS_TEM", "EDS_SEM", "EELS", "auto">>

signal_types == <<"auto", "EMD", "EDS_TEM", "EDS_SEM", "EELS">>

\* One decoded signal object: where it came from and which load made it.
Signal(src, by, k) == [src |-> src, by |-> by, k |-> k]

\* What hs.load can hand back for one call: a bare signal or a list of
\* signals (islist is what isinstance(signal, list) answers).
BareResult(src, by) == [islist |-> FALSE, items |-> <<Signal(src, by, 0)>>]

ListResult(src, by, n) == [islist |-> TRUE, items |-> [k \in 1..n |-> Signal(src, by, k - 1)]]

DecodeResults(src, by) == {BareResult(src, by)} \cup {ListResult(src, by, n) : n \in 1..MaxSignals}

\* file_functions.py:131-132  wrap a bare signal in a one-element list
NormalizeNoWrap(signal) == signal

Normalize(signal) == IF signal.islist THEN signal ELSE [islist |-> TRUE, items |-> <<signal.items[1]>>]

\* ---------------------------------------------------------------- cache
\* CURRENT_FILE is the shared dict; the other variables up to lastInstall
\* are each thread's position and locals inside get_cached_file/load_file.
\* pre and lastLoad are history: the cache and the last successful
\* load_file as they were when the running request began.
VARIABLES CURRENT_FILE, pc, op, filepath, signal_idx, cached_data, signal, signal_type, attempts, raw, ret, lastInstall, pre, lastLoad

\* constants.py:6-9
EmptyCache == [filepath |-> None, data |-> Nothing]

\* file_functions.py:42 / constants.py:32  the path comparison of the lookup
FilepathNeverMatches(cf, file_path) == FALSE

FilepathMatches(cf, file_path) == cf.filepath = file_path

\* file_functions.py:135
SetCacheFilepath(cf, path) == [cf EXCEPT !.filepath = path]

\* file_functions.py:136
SetCacheDataIfEmpty(cf, sig) == IF IsNone(cf.data) THEN [cf EXCEPT !.data = Some(sig)] ELSE cf

SetCacheDataAppend(cf, sig) == IF IsNone(cf.data) THEN [cf EXCEPT !.data = Some(sig)] ELSE [cf EXCEPT !.data = Some([islist |-> TRUE, items |-> The(cf.data).items \o sig.items])]

SetCacheData(cf, sig) == [cf EXCEPT !.data = Some(sig)]

\* file_functions.py:141-146  the except branch and the final raise leave
\* CURRENT_FILE alone
CacheAfterFailurePlaceholder(cf, path) == [filepath |-> path, data |-> Nothing]

CacheAfterFailure(cf, path) == cf

\* file_functions.py:112,143  `continue` moves to the next signal type
NextSignalType(i) == i + 1

NoRet == [kind |-> "none", val |-> Nothing, err |-> None]

Value(v) == [kind |-> "value", val |-> v, err |-> None]

Raise(e) == [kind |-> "raise", val |-> Nothing, err |-> e]

CacheInit ==
    /\ CURRENT_FILE = EmptyCache
    /\ pc = [t \in Threads |-> "idle"]
    /\ op = [t \in Threads |-> None]
    /\ filepath = [t \in Threads |-> None]
    /\ signal_idx = [t \in Threads |-> Nothing]
    /\ cached_data = [t \in Threads |-> Nothing]
    /\ signal = [t \in Threads |-> Nothing]
    /\ signal_type = [t \in Threads |-> 0]
    /\ attempts = [t \in Threads |-> <<>>]
    /\ raw = [t \in Threads |-> Nothing]
    /\ ret = [t \in Threads |-> NoRet]
    /\ lastInstall = 0
    /\ pre = [cache |-> EmptyCache, last |-> EmptyCache]
    /\ lastLoad = EmptyCache

\* Python's list[i]: positions -n..-1 count from the end, anything outside
\* -n..n-1 raises IndexError.
PyIndex(items, i) == IF 0 <= i /\ i < Len(items) THEN Value(Some(items[i + 1])) ELSE IF 0 - Len(items) <= i /\ i < 0 THEN Value(Some(items[Len(items) + i + 1])) ELSE Raise("IndexError")

\* signal_service.py:187-191  pick one signal out of the loaded list
SelectSignal(sig, i) == IF i >= Len(sig.items) THEN Raise("ValueError") ELSE PyIndex(sig.items, i)

\* constants.py:33-35  the cached list, or one signal of it
CachedSelection(data, idx) == IF IsNone(idx) THEN Value(Some(data)) ELSE PyIndex(data.items, The(idx))

CacheOps == {"load_file", "get_cached_file"}

SelectOps == {"get_spectrum_data", "constants_get_cached_file"}

Indexes(o) == IF o \in CacheOps THEN {Nothing} ELSE IF o = "get_spectrum_data" THEN {Some(i) : i \in (0 - MaxIndex)..MaxIndex} ELSE {Nothing} \cup {Some(i) : i \in (0 - MaxIndex)..MaxIndex}

\* A request enters one of the cache functions.
Call(t, ops) ==
    /\ pc[t] = "idle"
    /\ \E o \in ops, p \in Paths : \E i \in Indexes(o) :
        /\ op' = [op EXCEPT ![t] = o]
        /\ filepath' = [filepath EXCEPT ![t] = p]
        /\ signal_idx' = [signal_idx EXCEPT ![t] = i]
    /\ pc' = [pc EXCEPT ![t] = "gc42"]
    /\ UNCHANGED <<CURRENT_FILE, cached_data, signal, signal_type, attempts, raw, ret, lastInstall>>

\* The call returns or raises r.
Finish(t, r) ==
    /\ pc' = [pc EXCEPT ![t] = "done"]
    /\ ret' = [ret EXCEPT ![t] = r]

\* The caller has its result; the thread is free for the next request.
Return(t) ==
    /\ pc[t] = "done"
    /\ pc' = [pc EXCEPT ![t] = "idle"]
    /\ op' = [op EXCEPT ![t] = None]
    /\ filepath' = [filepath EXCEPT ![t] = None]
    /\ signal_idx' = [signal_idx EXCEPT ![t] = Nothing]
    /\ cached_data' = [cached_data EXCEPT ![t] = Nothing]
    /\ signal' = [signal EXCEPT ![t] = Nothing]
    /\ signal_type' = [signal_type EXCEPT ![t] = 0]
    /\ attempts' = [attempts EXCEPT ![t] = <<>>]
    /\ raw' = [raw EXCEPT ![t] = Nothing]
    /\ ret' = [ret EXCEPT ![t] = NoRet]
    /\ UNCHANGED <<CURRENT_FILE, lastInstall>>

\* The lookup hands v (None or the cached list) back to whoever called it.
LookupReturn(t, v) ==
    /\ cached_data' = [cached_data EXCEPT ![t] = v]
    /\ IF op[t] = "get_cached_file"
       THEN Finish(t, Value(v))
       ELSE IF op[t] = "constants_get_cached_file"
       THEN Finish(t, IF IsNone(v) THEN Value(Nothing) ELSE CachedSelection(The(v), signal_idx[t]))
       ELSE /\ pc' = [pc EXCEPT ![t] = "L98"]
            /\ UNCHANGED ret

\* file_functions.py:42  if CURRENT_FILE["filepath"] == file_path
gc42(t) ==
    /\ pc[t] = "gc42"
    /\ IF FilepathMatches(CURRENT_FILE, filepath[t])
       THEN /\ pc' = [pc EXCEPT ![t] = "gc44"]
            /\ UNCHANGED <<ret, cached_data>>
       ELSE LookupReturn(t, Nothing)
    /\ UNCHANGED <<CURRENT_FILE, op, filepath, signal_idx, signal, signal_type, attempts, raw, lastInstall>>

\* file_functions.py:44  if CURRENT_FILE["data"] is not None
gc44(t) ==
    /\ pc[t] = "gc44"
    /\ IF ~IsNone(CURRENT_FILE.data)
       THEN /\ pc' = [pc EXCEPT ![t] = "gc53"]
            /\ UNCHANGED <<ret, cached_data>>
       ELSE LookupReturn(t, Nothing)
    /\ UNCHANGED <<CURRENT_FILE, op, filepath, signal_idx, signal, signal_type, attempts, raw, lastInstall>>

\* file_functions.py:53  return CURRENT_FILE["data"]
gc53(t) ==
    /\ pc[t] = "gc53"
    /\ LookupReturn(t, CURRENT_FILE.data)
    /\ UNCHANGED <<CURRENT_FILE, op, filepath, signal_idx, signal, signal_type, attempts, raw, lastInstall>>

\* load_file hands v back: to the request itself, or to the service method
\* that goes on to pick one signal.
LoadReturn(t, v) ==
    /\ signal' = [signal EXCEPT ![t] = Some(v)]
    /\ IF op[t] = "get_spectrum_data"
       THEN /\ pc' = [pc EXCEPT ![t] = "L187"]
            /\ UNCHANGED ret
       ELSE Finish(t, Value(Some(v)))

\* file_functions.py:98-110  a cached list is returned as it is, a miss
\* starts the loop over signal_types
L98(t) ==
    /\ pc[t] = "L98"
    /\ IF ~IsNone(cached_data[t])
       THEN /\ LoadReturn(t, The(cached_data[t]))
            /\ UNCHANGED signal_type
       ELSE /\ signal_type' = [signal_type EXCEPT ![t] = 1]
            /\ pc' = [pc EXCEPT ![t] = "L122"]
            /\ UNCHANGED <<ret, signal>>
    /\ UNCHANGED <<CURRENT_FILE, op, filepath, signal_idx, cached_data, attempts, raw, lastInstall>>

Hint(t) == signal_types[signal_type[t]]

\* file_functions.py:121-124, 141-143  hs.load raises: next signal type, or
\* the loop is over
L122Raise(t) ==
    /\ pc[t] = "L122"
    /\ attempts' = [attempts EXCEPT ![t] = Append(@, [hint |-> Hint(t), ok |-> FALSE])]
    /\ CURRENT_FILE' = CacheAfterFailure(CURRENT_FILE, filepath[t])
    /\ IF NextSignalType(signal_type[t]) > Len(signal_types)
       THEN /\ pc' = [pc EXCEPT ![t] = "L146"]
            /\ UNCHANGED signal_type
       ELSE /\ signal_type' = [signal_type EXCEPT ![t] = NextSignalType(@)]
            /\ UNCHANGED pc
    /\ UNCHANGED <<op, filepath, signal_idx, cached_data, signal, raw, ret, lastInstall>>

\* file_functions.py:121-132  hs.load returns: the result is made a list
L122Load(t) ==
    /\ pc[t] = "L122"
    /\ \E r \in DecodeResults(filepath[t], t) :
        /\ raw' = [raw EXCEPT ![t] = Some(r)]
        /\ signal' = [signal EXCEPT ![t] = Some(Normalize(r))]
    /\ attempts' = [attempts EXCEPT ![t] = Append(@, [hint |-> Hint(t), ok |-> TRUE])]
    /\ pc' = [pc EXCEPT ![t] = "L135"]
    /\ UNCHANGED <<CURRENT_FILE, op, filepath, signal_idx, cached_data, signal_type, ret, lastInstall>>

\* file_functions.py:135  CURRENT_FILE["filepath"] = filepath
L135(t) ==
    /\ pc[t] = "L135"
    /\ CURRENT_FILE' = SetCacheFilepath(CURRENT_FILE, filepath[t])
    /\ pc' = [pc EXCEPT ![t] = "L136"]
    /\ UNCHANGED <<op, filepath, signal_idx, cached_data, signal, signal_type, attempts, raw, ret, lastInstall>>

\* file_functions.py:136  CURRENT_FILE["data"] = signal
L136(t) ==
    /\ pc[t] = "L136"
    /\ CURRENT_FILE' = SetCacheData(CURRENT_FILE, The(signal[t]))
    /\ lastInstall' = t
    /\ pc' = [pc EXCEPT ![t] = "L139"]
    /\ UNCHANGED <<op, filepath, signal_idx, cached_data, signal, signal_type, attempts, raw, ret>>

\* file_functions.py:139  return signal
L139(t) ==
    /\ pc[t] = "L139"
    /\ LoadReturn(t, The(signal[t]))
    /\ UNCHANGED <<CURRENT_FILE, op, filepath, signal_idx, cached_data, signal_type, attempts, raw, lastInstall>>

\* file_functions.py:146  raise ValueError("Could not load file ...")
L146(t) ==
    /\ pc[t] = "L146"
    /\ Finish(t, Raise("ValueError"))
    /\ UNCHANGED <<CURRENT_FILE, op, filepath, signal_idx, cached_data, signal, signal_type, attempts, raw, lastInstall>>

\* signal_service.py:187-194  get_spectrum_data picks signal[signal_idx]
L187(t) ==
    /\ pc[t] = "L187"
    /\ Finish(t, SelectSignal(The(signal[t]), The(signal_idx[t])))
    /\ UNCHANGED <<CURRENT_FILE, op, filepath, signal_idx, cached_data, signal, signal_type, attempts, raw, lastInstall>>

Run(t) ==
    \/ gc42(t)
    \/ gc44(t)
    \/ gc53(t)
    \/ L98(t)
    \/ L122Raise(t)
    \/ L122Load(t)
    \/ L135(t)
    \/ L136(t)
    \/ L139(t)
    \/ L146(t)
    \/ Return(t)

Step(t) == Call(t, CacheOps) \/ Run(t)

SelectStep(t) == Call(t, SelectOps) \/ Run(t) \/ L187(t)

OthersIdle(t) == \A u \in Threads \ {t} : pc[u] = "idle"

\* History of a step of thread t: the cache and the last successful
\* load_file at the moment a request begins, and the load_file that has
\* just returned a list.
Record(t) ==
    /\ pre' = IF pc[t] = "idle" THEN [cache |-> CURRENT_FILE, last |-> lastLoad] ELSE pre
    /\ lastLoad' = IF pc[t] # "done" /\ pc'[t] = "done" /\ op[t] = "load_file" /\ ret'[t].kind = "value" THEN [filepath |-> filepath[t], data |-> ret'[t].val] ELSE lastLoad

\* ---------------------------------------------------------------- users
\* user_manager.py: the user directories under base_dir.  dir_exists and
\* has_file are the file system.  Timestamps are kept by their order only:
\* ctime lists the directories by what os.path.getctime answers, oldest
\* first, and birth lists them by the time they were made (history).  posix
\* says what getctime answers on the host: the time of the last inode
\* change (POSIX), which moves when an entry is added to the directory, or
\* the time of creation (Windows).  The other variables are each thread's
\* position and locals inside get_user_directory; events and upre are
\* history of the running request.
VARIABLES dir_exists, ctime, birth, has_file, posix, upc, uop, user_id, current_count, listed, oldest_dir, uret, events, upre

\* user_manager.py:39  config.get('max_users', 10); the model runs with a
\* smaller configured ceiling
max_users == 3

\* 0 stands for an id that _sanitize_user_id rejects.
UserIds == 0..NumUsers

Users == 1..NumUsers

UserInit ==
    /\ dir_exists = {}
    /\ ctime = <<>>
    /\ birth = <<>>
    /\ has_file = {}
    /\ posix \in BOOLEAN
    /\ upc = [t \in Threads |-> "idle"]
    /\ uop = [t \in Threads |-> None]
    /\ user_id = [t \in Threads |-> 0]
    /\ current_count = [t \in Threads |-> 0]
    /\ listed = [t \in Threads |-> {}]
    /\ oldest_dir = [t \in Threads |-> 0]
    /\ uret = [t \in Threads |-> "none"]
    /\ events = <<>>
    /\ upre = <<>>

\* user_manager.py:241-259  get_active_user_count
ActiveUserCount(dirs) == Cardinality(dirs)

\* user_manager.py:358  if current_count >= self.max_users
LimitReached(count) == count >= max_users

\* user_manager.py:382-383  min(user_dirs, key=os.path.getctime)
Position(order, d) == CHOOSE i \in 1..Len(order) : order[i] = d

Oldest(dirs, order) == CHOOSE d \in dirs : \A e \in dirs : Position(order, d) <= Position(order, e)

Without(order, d) == SelectSeq(order, LAMBDA e : e # d)

\* A timestamp taken now is later than every other.
Stamped(order, d) == Append(Without(order, d), d)

\* user_manager.py:415-416, 461-462  ids the sanitizer turns down
Sanitizes(u) == u # 0

UserOps == {"get_user_directory", "copy_sample_files"}

\* A request enters get_user_directory, directly or through
\* _copy_sample_files_to_user (user_manager.py:309).
UCall(t, ops) ==
    /\ upc[t] = "idle"
    /\ \E o \in ops, u \in UserIds :
        /\ uop' = [uop EXCEPT ![t] = o]
        /\ user_id' = [user_id EXCEPT ![t] = u]
    /\ upc' = [upc EXCEPT ![t] = "U356"]
    /\ UNCHANGED <<dir_exists, ctime, birth, has_file, posix, current_count, listed, oldest_dir, uret>>

\* user_manager.py:356  current_count = self.get_active_user_count()
U356(t) ==
    /\ upc[t] = "U356"
    /\ current_count' = [current_count EXCEPT ![t] = ActiveUserCount(dir_exists)]
    /\ upc' = [upc EXCEPT ![t] = "U358"]
    /\ UNCHANGED <<dir_exists, ctime, birth, has_file, posix, uop, user_id, listed, oldest_dir, uret>>

\* _enforce_user_limit is over: its locals and those of _remove_oldest_user
\* are gone.
LimitEnforced(t) ==
    /\ upc' = [upc EXCEPT ![t] = "U65"]
    /\ current_count' = [current_count EXCEPT ![t] = 0]
    /\ listed' = [listed EXCEPT ![t] = {}]
    /\ oldest_dir' = [oldest_dir EXCEPT ![t] = 0]

\* user_manager.py:358-360
U358(t) ==
    /\ upc[t] = "U358"
    /\ IF LimitReached(current_count[t])
       THEN /\ upc' = [upc EXCEPT ![t] = "U373"]
            /\ UNCHANGED <<current_count, listed, oldest_dir>>
       ELSE LimitEnforced(t)
    /\ UNCHANGED <<dir_exists, ctime, birth, has_file, posix, uop, user_id, uret>>

\* user_manager.py:373-379  list the directories; none: return False
U373(t) ==
    /\ upc[t] = "U373"
    /\ IF dir_exists = {}
       THEN LimitEnforced(t)
       ELSE /\ listed' = [listed EXCEPT ![t] = dir_exists]
            /\ upc' = [upc EXCEPT ![t] = "U382"]
            /\ UNCHANGED <<current_count, oldest_dir>>
    /\ UNCHANGED <<dir_exists, ctime, birth, has_file, posix, uop, user_id, uret>>

\* user_manager.py:382-383, 391-393  the oldest of the listed directories;
\* getctime of a directory that is gone raises, and the except returns False
U382(t) ==
    /\ upc[t] = "U382"
    /\ IF listed[t] \subseteq dir_exists
       THEN /\ oldest_dir' = [oldest_dir EXCEPT ![t] = Oldest(listed[t], ctime)]
            /\ upc' = [upc EXCEPT ![t] = "U386"]
            /\ UNCHANGED <<current_count, listed>>
       ELSE LimitEnforced(t)
    /\ UNCHANGED <<dir_exists, ctime, birth, has_file, posix, uop, user_id, uret>>

\* user_manager.py:385-386  shutil.rmtree(oldest_path, ignore_errors=True)
U386(t) ==
    /\ upc[t] = "U386"
    /\ dir_exists' = dir_exists \ {oldest_dir[t]}
    /\ has_file' = has_file \ {oldest_dir[t]}
    /\ ctime' = Without(ctime, oldest_dir[t])
    /\ birth' = Without(birth, oldest_dir[t])
    /\ LimitEnforced(t)
    /\ UNCHANGED <<posix, uop, user_id, uret>>

\* user_manager.py:65  safe_user_id = self._sanitize_user_id(user_id)
U65(t) ==
    /\ upc[t] = "U65"
    /\ IF Sanitizes(user_id[t])
       THEN /\ upc' = [upc EXCEPT ![t] = "U67"]
            /\ UNCHANGED uret
       ELSE /\ upc' = [upc EXCEPT ![t] = "done"]
            /\ uret' = [uret EXCEPT ![t] = "ValueError"]
    /\ UNCHANGED <<dir_exists, ctime, birth, has_file, posix, uop, user_id, current_count, listed, oldest_dir>>

\* user_manager.py:66-69  os.makedirs(user_dir, exist_ok=True)
U67(t) ==
    /\ upc[t] = "U67"
    /\ IF user_id[t] \in dir_exists
       THEN UNCHANGED <<dir_exists, ctime, birth>>
       ELSE /\ dir_exists' = dir_exists \cup {user_id[t]}
            /\ ctime' = Stamped(ctime, user_id[t])
            /\ birth' = Stamped(birth, user_id[t])
    /\ IF uop[t] = "copy_sample_files"
       THEN /\ upc' = [upc EXCEPT ![t] = "U325"]
            /\ UNCHANGED uret
       ELSE /\ upc' = [upc EXCEPT ![t] = "done"]
            /\ uret' = [uret EXCEPT ![t] = "ok"]
    /\ UNCHANGED <<has_file, posix, uop, user_id, current_count, listed, oldest_dir>>

\* user_manager.py:325-335  copy the sample file if the user has none; a new
\* entry in the directory moves its inode change time; the copy into a
\* directory that is gone raises and the except returns []
U325(t) ==
    /\ upc[t] = "U325"
    /\ IF user_id[t] \in has_file
       THEN UNCHANGED <<has_file, ctime>>
       ELSE IF user_id[t] \in dir_exists
       THEN /\ has_file' = has_file \cup {user_id[t]}
            /\ ctime' = IF posix THEN Stamped(ctime, user_id[t]) ELSE ctime
       ELSE UNCHANGED <<has_file, ctime>>
    /\ upc' = [upc EXCEPT ![t] = "done"]
    /\ uret' = [uret EXCEPT ![t] = "ok"]
    /\ UNCHANGED <<dir_exists, birth, posix, uop, user_id, current_count, listed, oldest_dir>>

\* The caller has its result; the thread is free for the next request.
UReturn(t) ==
    /\ upc[t] = "done"
    /\ upc' = [upc EXCEPT ![t] = "idle"]
    /\ uop' = [uop EXCEPT ![t] = None]
    /\ user_id' = [user_id EXCEPT ![t] = 0]
    /\ uret' = [uret EXCEPT ![t] = "none"]
    /\ UNCHANGED <<dir_exists, ctime, birth, has_file, posix, current_count, listed, oldest_dir>>

\* get_user_directory called on its own.
UStep(t) ==
    \/ UCall(t, {"get_user_directory"})
    \/ U356(t)
    \/ U358(t)
    \/ U373(t)
    \/ U382(t)
    \/ U386(t)
    \/ U65(t)
    \/ U67(t)
    \/ UReturn(t)

\* get_user_directory called on its own or by _copy_sample_files_to_user.
UCopyStep(t) ==
    \/ UCall(t, UserOps)
    \/ U356(t)
    \/ U358(t)
    \/ U373(t)
    \/ U382(t)
    \/ U386(t)
    \/ U65(t)
    \/ U67(t)
    \/ U325(t)
    \/ UReturn(t)

\* History of a step of thread t: the directories, in the order they were
\* made, at the moment a request begins, and the directories the request
\* has removed and made since, in that order.
URecord(t) ==
    /\ upre' = IF upc[t] = "idle" THEN birth ELSE IF upc'[t] = "idle" THEN <<>> ELSE upre
    /\ events' = IF upc'[t] = "idle" THEN <<>> ELSE IF dir_exists' # dir_exists /\ dir_exists' \subseteq dir_exists THEN Append(events, <<"rm", oldest_dir[t]>>) ELSE IF dir_exists' # dir_exists THEN Append(events, <<"mk", user_id[t]>>) ELSE events

UOthersIdle(t) == \A u \in Threads \ {t} : upc[u] = "idle"

\* ---------------------------------------------------------------- arrays
\* operations/spectrum_functions.py, file_service.py: reductions of a
\* signal's data array.  call is the last call of one of these functions:
\* its name, its arguments, the locals worth keeping and what it returned.
VARIABLES call

MaxSide == 2

NoCall == [op |-> None]

ArrayInit == call = NoCall

\* The signals: every shape of 0 to 4 axes with sides 0..MaxSide, filled by
\* data[i1, .., in] = v0 + coef[1] * i1 + .. + coef[n] * in.
Sides == 0..MaxSide

Shapes == UNION {[1..n -> Sides] : n \in 0..4}

Values == {0, 1}

Signals == UNION {{[shape |-> sh, v0 |-> v, coef |-> c] : v \in Values, c \in [1..Len(sh) -> Values]} : sh \in Shapes}

Signals3D == {sig \in Signals : Len(sig.shape) = 3}

RECURSIVE SumFn(_, _)
SumFn(f, S) == IF S = {} THEN 0 ELSE LET x == CHOOSE x \in S : TRUE IN f[x] + SumFn(f, S \ {x})

\* Images of a signed integer dtype, IntBits wide: one row of 1..MaxRow
\* pixels, every value of the dtype in every pixel.
IntBits == 3
MaxRow == 4

IntValues == (0 - 2^(IntBits - 1))..(2^(IntBits - 1) - 1)

IntRows == UNION {{[shape |-> <<1, n>>, cells |-> c] : c \in [1..n -> IntValues]} : n \in 1..MaxRow}

IsIntRow(sig) == "cells" \in DOMAIN sig

\* signal.data[idx], idx counted from 0
At(sig, idx) == IF IsIntRow(sig) THEN sig.cells[idx[2] + 1] ELSE sig.v0 + SumFn([i \in 1..Len(idx) |-> sig.coef[i] * idx[i]], 1..Len(idx))

\* the positions a:b selects on an axis of n entries, 0 <= a
Slice(a, b, n) == {i \in 0..(n - 1) : a <= i /\ i < b}

Max(a, b) == IF a >= b THEN a ELSE b

Min(a, b) == IF a <= b THEN a ELSE b

\* spectrum_functions.py:74-77  max(0, min(x, width - 1))
Clamp(x, n) == Max(0, Min(x, n - 1))

\* spectrum_functions.py:74-81  the region clamped, then ordered
NormalizeRegionUnordered(region, height, width) == [x1 |-> Clamp(region.x1, width), y1 |-> Clamp(region.y1, height), x2 |-> Clamp(region.x2, width), y2 |-> Clamp(region.y2, height)]

NormalizeRegion(region, height, width) ==
    LET x1 == Clamp(region.x1, width)
        x2 == Clamp(region.x2, width)
        y1 == Clamp(region.y1, height)
        y2 == Clamp(region.y2, height)
    IN  [x1 |-> Min(x1, x2), y1 |-> Min(y1, y2), x2 |-> Max(x1, x2), y2 |-> Max(y1, y2)]

\* spectrum_functions.py:83  signal.data[y1:y2+1, x1:x2+1, :], as the set of
\* pixels <<y, x>> it selects
RegionPixels(r, height, width) == Slice(r.y1, r.y2 + 1, height) \X Slice(r.x1, r.x2 + 1, width)

\* np.sum(data, axis=(0, 1)) over the pixels px of a 3D array: one value per
\* channel, as a list
SumChannels(sig, px) == [y \in 1..sig.shape[1] |-> SumFn([k \in 1..sig.shape[3] |-> At(sig, <<y - 1, 0, k - 1>>)], 1..sig.shape[3])]

SumPixels(sig, px) == [k \in 1..sig.shape[3] |-> SumFn([p \in px |-> At(sig, <<p[1], p[2], k - 1>>)], px)]

\* spectrum_functions.py:54-87
extract_spectrum_range(sig, region) ==
    IF Len(sig.shape) # 3
    THEN Raise("ValueError")
    ELSE LET height == sig.shape[1]
             width == sig.shape[2]
         IN  Value(SumPixels(sig, RegionPixels(NormalizeRegion(region, height, width), height, width)))

\* signal_service.py:94-162  the same reduction after an explicit 3D test
get_spectrum_from_region(sig, region) ==
    IF Len(sig.shape) # 3
    THEN Raise("ValueError")
    ELSE LET height == sig.shape[1]
             width == sig.shape[2]
         IN  Value(SumPixels(sig, RegionPixels(NormalizeRegion(region, height, width), height, width)))

\* valid positions are 0..MaxSide-1: the coordinates run one past both ends
Coords == (0 - 1)..MaxSide

Regions == [x1 : Coords, y1 : Coords, x2 : Coords, y2 : Coords]

\* region requests reach the functions with 2D and 3D signals
RegionSignals == {sig \in Signals : Len(sig.shape) \in {2, 3}}

RegionOps == {"extract_spectrum_range", "get_spectrum_from_region"}

RegionResult(o, sig, region) == IF o = "extract_spectrum_range" THEN extract_spectrum_range(sig, region) ELSE get_spectrum_from_region(sig, region)

\* One region extraction.
ExtractRegion ==
    /\ call = NoCall
    /\ \E o \in RegionOps, sig \in RegionSignals, region \in Regions :
        call' = [op |-> o, signal |-> sig, region |-> region, ret |-> RegionResult(o, sig, region)]

\* The integer pixels <<y, x>> an ordered region names, corners included.
Cells(r) == (r.y1..r.y2) \X (r.x1..r.x2)

OrderedRegions == {r \in Regions : r.x1 <= r.x2 /\ r.y1 <= r.y2}

\* The two parts of r cut after column m, or after row m.
SplitAtX(r, m) == <<[r EXCEPT !.x2 = m], [r EXCEPT !.x1 = m + 1]>>

SplitAtY(r, m) == <<[r EXCEPT !.y2 = m], [r EXCEPT !.y1 = m + 1]>>

Splits(r) == {SplitAtX(r, m) : m \in r.x1..(r.x2 - 1)} \cup {SplitAtY(r, m) : m \in r.y1..(r.y2 - 1)}

\* extract_spectrum_range called for a region and for its two parts.
ExtractSplit ==
    /\ call = NoCall
    /\ \E sig \in Signals3D, region \in OrderedRegions : \E parts \in Splits(region) :
        call' = [op |-> "extract_spectrum_range x3", signal |-> sig, region |-> region, part1 |-> parts[1], part2 |-> parts[2],
                 ret |-> extract_spectrum_range(sig, region), ret1 |-> extract_spectrum_range(sig, parts[1]), ret2 |-> extract_spectrum_range(sig, parts[2])]

SwapX(r) == [r EXCEPT !.x1 = r.x2, !.x2 = r.x1]

SwapY(r) == [r EXCEPT !.y1 = r.y2, !.y2 = r.y1]

\* extract_spectrum_range called for a region as given and with its x pair,
\* its y pair and both pairs swapped.
ExtractSwapped ==
    /\ call = NoCall
    /\ \E sig \in Signals3D, region \in Regions :
        call' = [op |-> "extract_spectrum_range x4", signal |-> sig, region |-> region,
                 ret |-> extract_spectrum_range(sig, region), retx |-> extract_spectrum_range(sig, SwapX(region)),
                 rety |-> extract_spectrum_range(sig, SwapY(region)), retxy |-> extract_spectrum_range(sig, SwapX(SwapY(region)))]

AllPixels(sig) == (0..(sig.shape[1] - 1)) \X (0..(sig.shape[2] - 1))

\* spectrum_functions.py:29  signal.data.tolist() of a 1D array
ToListReversed(sig) == [i \in 1..sig.shape[1] |-> At(sig, <<sig.shape[1] - i>>)]

ToList(sig) == [i \in 1..sig.shape[1] |-> At(sig, <<i - 1>>)]

\* spectrum_functions.py:15-38
extract_whole_spectrum_data(sig) ==
    IF Len(sig.shape) = 1
    THEN Value(ToList(sig))
    ELSE IF Len(sig.shape) = 3
    THEN Value(SumPixels(sig, AllPixels(sig)))
    ELSE Raise("ValueError")

\* One whole-frame extraction.
ExtractWhole ==
    /\ call = NoCall
    /\ \E sig \in Signals :
        call' = [op |-> "extract_whole_spectrum_data", signal |-> sig, ret |-> extract_whole_spectrum_data(sig)]

\* ---------------------------------------------------------------- floats
\* Binary floating point, round to nearest, ties to even, with a significand
\* of Precision bits.  A float is written as the integer number of units of
\* 2^-FracBits it is worth; below 2^Precision units every integer is a float
\* (the subnormal range).
Precision == 8
FracBits == 10

One == 2^FracBits

\* p / q rounded to the nearest integer, ties to even (0 <= p, 0 < q)
RoundHalfEven(p, q) == LET f == p \div q
                           r == p % q
                       IN  IF 2 * r < q THEN f ELSE IF 2 * r > q THEN f + 1 ELSE IF f % 2 = 0 THEN f ELSE f + 1

\* how many low bits a number of n units has to give up
RECURSIVE Shift(_, _)
Shift(n, s) == IF n < 2^(Precision + s) THEN s ELSE Shift(n, s + 1)

\* p / q units rounded to a float (0 < q)
FRound(p, q) == LET a == IF p >= 0 THEN p ELSE 0 - p
                    s == Shift(a \div q, 0)
                    m == RoundHalfEven(a, q * 2^s) * 2^s
                IN  IF p >= 0 THEN m ELSE 0 - m

FromInt(i) == FRound(i * One, 1)

FAdd(a, b) == FRound(a + b, 1)

FMul(a, b) == FRound(a * b, One)

\* a / b, b # 0
FDiv(a, b) == IF b > 0 THEN FRound(a * One, b) ELSE FRound((0 - a) * One, 0 - b)

\* abs(x)
Abs(x) == IF x >= 0 THEN x ELSE 0 - x

\* the integer part, toward zero
Trunc(a) == IF a >= 0 THEN a \div One ELSE 0 - ((0 - a) \div One)

\* ---------------------------------------------------------------- images
\* file_service.py:756  np.sum(signal.data, axis=2) at pixel p
SumOverRows(sig, p) == SumFn([y \in 0..(sig.shape[1] - 1) |-> At(sig, <<y, p[2], 0>>)], 0..(sig.shape[1] - 1))

SumOverChannels(sig, p) == SumFn([k \in 0..(sig.shape[3] - 1) |-> At(sig, <<p[1], p[2], k>>)], 0..(sig.shape[3] - 1))

\* file_service.py:751-756  image_data before it is normalized, pixel by
\* pixel <<y, x>>
ReduceToImage(sig) == [p \in AllPixels(sig) |-> IF Len(sig.shape) = 2 THEN At(sig, p) ELSE SumOverChannels(sig, p)]

ImageMin(img) == CHOOSE v \in {img[p] : p \in DOMAIN img} : \A p \in DOMAIN img : v <= img[p]

ImageMax(img) == CHOOSE v \in {img[p] : p \in DOMAIN img} : \A p \in DOMAIN img : v >= img[p]

\* a - b in the dtype of the array: a narrow signed integer wraps around
ArraySub(sig, a, b) == IF IsIntRow(sig) THEN ((a - b + 2^(IntBits - 1)) % 2^IntBits) - 2^(IntBits - 1) ELSE a - b

\* .astype(np.uint8) of the float y: the integer part when it fits; a value
\* that does not fit is undefined in C, and the build decides: it keeps the
\* low 8 bits of the integer part, or saturates
CastBuilds == {"wrap", "saturate"}

CastUint8(y, build) == LET t == Trunc(y) IN IF 0 <= t /\ t <= 255 THEN t ELSE IF build = "wrap" THEN t % 256 ELSE IF t < 0 THEN 0 ELSE 255

\* file_service.py:762-764, signal_service.py:342-344  the normalization.
\* With max = min every pixel is 0 / 0 = NaN, and the cast of NaN is
\* undefined: every pixel becomes the byte nan the build produces.
NormalizeImage(sig, img, build, nan) ==
    IF DOMAIN img = {}
    THEN img
    ELSE LET lo == ImageMin(img)
             d == ArraySub(sig, ImageMax(img), lo)
         IN  [p \in DOMAIN img |-> IF d = 0 THEN nan ELSE CastUint8(FMul(FDiv(FromInt(ArraySub(sig, img[p], lo)), FromInt(d)), FromInt(255)), build)]

ImageResult(sig, img) == Value([data_shape |-> <<sig.shape[1], sig.shape[2]>>, image_data |-> img])

\* file_service.py:738-770
extract_image_data_from_signal(sig, build, nan) ==
    IF Len(sig.shape) \in {2, 3}
    THEN ImageResult(sig, NormalizeImage(sig, ReduceToImage(sig), build, nan))
    ELSE Raise("ValueError")

\* signal_service.py:330-361  only a 2D signal; the ValueError is caught
\* and None returned
get_haadf_data(sig, build, nan) ==
    IF Len(sig.shape) = 2
    THEN ImageResult(sig, NormalizeImage(sig, ReduceToImage(sig), build, nan))
    ELSE Value(Nothing)

ImageOps == {"extract_image_data_from_signal", "get_haadf_data"}

ImageSignals == Signals \cup IntRows

IsFlat(sig) == Len(sig.shape) \in {2, 3} /\ \A p \in AllPixels(sig), q \in AllPixels(sig) : ReduceToImage(sig)[p] = ReduceToImage(sig)[q]

\* One image extraction; image_data is the local of that name as it is
\* before the normalization.
ExtractImage(signals) ==
    /\ call = NoCall
    /\ \E o \in ImageOps, sig \in signals, build \in CastBuilds : \E nan \in IF IsFlat(sig) THEN 0..255 ELSE {0} :
        call' = [op |-> o, signal |-> sig,
                 image_data |-> IF Len(sig.shape) \in {2, 3} THEN Some(ReduceToImage(sig)) ELSE Nothing,
                 ret |-> IF o = "get_haadf_data" THEN get_haadf_data(sig, build, nan) ELSE extract_image_data_from_signal(sig, build, nan)]

\* ----------------------------------------------------------- capabilities
get_signal_capabilities_any(sig) == [hasSpectrum |-> Len(sig.shape) >= 1, hasImage |-> Len(sig.shape) >= 2]

\* signal_functions.py:105-125
get_signal_capabilities(sig) == [hasSpectrum |-> Len(sig.shape) = 1 \/ Len(sig.shape) = 3, hasImage |-> Len(sig.shape) = 2 \/ Len(sig.shape) = 3]

\* The capabilities of a signal are reported, and both extractions are
\* tried on it.
GetCapabilities ==
    /\ call = NoCall
    /\ \E sig \in Signals, build \in CastBuilds : \E nan \in IF IsFlat(sig) THEN 0..255 ELSE {0} :
        call' = [op |-> "get_signal_capabilities", signal |-> sig, ret |-> get_signal_capabilities(sig),
                 spectrum |-> extract_whole_spectrum_data(sig),
                 image |-> extract_image_data_from_signal(sig, build, nan)]

\* ------------------------------------------------------------- sanitizer
\* user_manager.py:395-472.  A string is the sequence of its characters.
\* The ids tried are written in the characters of Chars; of the patterns
\* and prefixes of the source the lists below keep those that can occur in
\* a string of these characters.
MaxIdChars == 4

Punctuation == {"_", "-", "/", ".", " ", ";"}

Chars == {"c", "o", "n", "s", "p", "S"} \cup Punctuation

\* user_manager.py:461
MinIdLen == 3

\* user_manager.py:464
MaxIdLen == 50

\* user_manager.py:466  safe_id[:47]
KeptLen == 47

ShortIds == UNION {[1..n -> Chars] : n \in 0..MaxIdChars}

RECURSIVE Repeat(_, _)
Repeat(c, n) == IF n = 0 THEN <<>> ELSE <<c>> \o Repeat(c, n - 1)

\* ids around the length limit: a short id followed by a run of one letter
LongIds == {id \o Repeat("c", n) : id \in {x \in ShortIds : Len(x) <= 1}, n \in (KeptLen - 1)..(MaxIdLen + 1)}

\* str.lower()
Lower(id) == [i \in 1..Len(id) |-> IF id[i] = "S" THEN "s" ELSE id[i]]

\* str.strip(chars)
RECURSIVE StripLeft(_, _)
StripLeft(id, chars) == IF id # <<>> /\ Head(id) \in chars THEN StripLeft(Tail(id), chars) ELSE id

RECURSIVE StripRight(_, _)
StripRight(id, chars) == IF id # <<>> /\ id[Len(id)] \in chars THEN StripRight(SubSeq(id, 1, Len(id) - 1), chars) ELSE id

Strip(id, chars) == StripRight(StripLeft(id, chars), chars)

StartsWith(id, pattern) == Len(pattern) <= Len(id) /\ SubSeq(id, 1, Len(pattern)) = pattern

\* pattern in id
Contains(id, pattern) == \E i \in 1..Len(id) : StartsWith(SubSeq(id, i, Len(id)), pattern)

\* id.replace(pattern, ''): occurrences are taken from the left
RECURSIVE Remove(_, _)
Remove(id, pattern) ==
    IF id = <<>>
    THEN <<>>
    ELSE IF StartsWith(id, pattern)
    THEN Remove(SubSeq(id, Len(pattern) + 1, Len(id)), pattern)
    ELSE <<Head(id)>> \o Remove(Tail(id), pattern)

\* the replace calls of a list of patterns, one after the other
RECURSIVE RemoveEach(_, _)
RemoveEach(id, patterns) == IF patterns = <<>> THEN id ELSE RemoveEach(Remove(id, Head(patterns)), Tail(patterns))

\* user_manager.py:422-430
sql_injection_patterns == {<<"s", "p", "_">>, <<"-", "-">>, <<";">>}

\* user_manager.py:441-444
dangerous_patterns == <<(<<".", ".">>), (<<"/">>), (<<";">>)>>

\* user_manager.py:456
reserved_prefixes == {<<"c", "o", "n">>}

\* c.isalnum()
IsAlnum(c) == c \notin Punctuation

\* user_manager.py:450
OnlySafe(id) == SelectSeq(id, LAMBDA c : IsAlnum(c) \/ c \in {"_", "-"})

\* user_manager.py:469  not safe_id or not safe_id.replace('_', '').replace('-', '').isalnum()
FinalCheckFails(id) == LET bare == RemoveEach(id, <<(<<"_">>), (<<"-">>)>>) IN id = <<>> \/ bare = <<>> \/ \E i \in 1..Len(bare) : ~IsAlnum(bare[i])

\* user_manager.py:433-438  the patterns are looked for in the id without
\* its spaces, underscores and hyphens
SqlCheckFails(id) == LET user_id_check == RemoveEach(id, <<(<<" ">>), (<<"_">>), (<<"-">>)>>) IN \E pattern \in sql_injection_patterns : Contains(user_id_check, pattern)

\* user_manager.py:440-466 after the check
SafeId(id) ==
    LET cleaned == Strip(OnlySafe(RemoveEach(id, dangerous_patterns)), {"_", "-"})
        prefixed == IF \E prefix \in reserved_prefixes : StartsWith(cleaned, prefix) THEN <<"u", "s", "r", "_">> \o cleaned ELSE cleaned
    IN  IF Len(prefixed) < MinIdLen
        THEN Raise("ValueError")
        ELSE LET safe_id == IF Len(prefixed) > MaxIdLen THEN SubSeq(prefixed, 1, KeptLen) \o <<"_", "t", "r">> ELSE prefixed
             IN  IF FinalCheckFails(safe_id) THEN Raise("ValueError") ELSE Value(safe_id)

\* user_manager.py:395-472  raw_id is Nothing for a value that is not a
\* string
sanitize_user_id(raw_id) ==
    IF IsNone(raw_id) \/ The(raw_id) = <<>>
    THEN Raise("ValueError")
    ELSE LET id == Strip(Lower(The(raw_id)), {" "})
         IN  IF SqlCheckFails(id) THEN Raise("ValueError") ELSE SafeId(id)

\* One _sanitize_user_id call.
SanitizeUserId ==
    /\ call = NoCall
    /\ \E raw_id \in {Nothing} \cup {Some(id) : id \in ShortIds \cup LongIds} :
        call' = [op |-> "_sanitize_user_id", user_id |-> raw_id, ret |-> sanitize_user_id(raw_id)]

\* The caller has its result.
CallReturn == call # NoCall /\ call' = NoCall

\* ----------------------------------------------------------- calibration
MaxTenths == 8
MaxChannel == 4

\* offsets and scales: the floats nearest to the decimals k / 10
AxisValues == {FRound(k * One, 10) : k \in (0 - MaxTenths)..MaxTenths}

Indices == (0 - MaxChannel)..MaxChannel

\* conversion_functions.py:29-31  -offset / scale of Python numbers
calculate_zero_index(offset, scale) == IF scale = 0 THEN Raise("ZeroDivisionError") ELSE Value(FDiv(0 - offset, scale))

\* conversion_functions.py:15-19  the constructor computes zero_index
SpectrumConverter(offset, scale) ==
    LET z == calculate_zero_index(offset, scale)
    IN  IF z.kind = "raise" THEN z ELSE Value([offset |-> offset, scale |-> scale, zero_index |-> z.val])

\* conversion_functions.py:21-23
to_true_index(self, original_index) == FAdd(self.offset, FMul(self.scale, FromInt(original_index)))

to_original_index_no_offset(self, true_index) == IF self.scale = 0 THEN Raise("ZeroDivisionError") ELSE Value(FDiv(true_index, self.scale))

\* conversion_functions.py:25-27
to_original_index(self, true_index) == IF self.scale = 0 THEN Raise("ZeroDivisionError") ELSE Value(FDiv(FAdd(true_index, 0 - self.offset), self.scale))

\* round(x) of a float: the nearest integer, ties to even
PyRound(a) == IF a >= 0 THEN RoundHalfEven(a, One) ELSE 0 - RoundHalfEven(0 - a, One)

\* data_functions.py:267
InBounds(z, size) == 0 <= z /\ z < size

\* data_functions.py:249-273  the ZeroDivisionError of scale = 0 is caught
\* and None returned
get_zero_index(axis) ==
    IF axis.scale = 0
    THEN Nothing
    ELSE LET zero_index == PyRound(FDiv(0 - axis.offset, axis.scale))
         IN  IF InBounds(zero_index, axis.size) THEN Some(zero_index) ELSE Nothing

EnergyAxes == [offset : AxisValues, scale : AxisValues, size : 0..(MaxChannel + 1)]

\* A converter is built from axes_data and an index taken to its energy and
\* back.
Convert ==
    /\ call = NoCall
    /\ \E offset \in AxisValues, scale \in AxisValues, i \in Indices :
        LET conv == SpectrumConverter(offset, scale)
            energy == IF conv.kind = "raise" THEN Nothing ELSE Some(to_true_index(conv.val, i))
        IN  call' = [op |-> "to_original_index", offset |-> offset, scale |-> scale, original_index |-> i,
                     converter |-> conv, true_index |-> energy,
                     ret |-> IF conv.kind = "raise" THEN conv ELSE to_original_index(conv.val, The(energy))]

\* One get_zero_index call on a signal with the energy axis axis.
ZeroIndex ==
    /\ call = NoCall
    /\ \E axis \in EnergyAxes :
        call' = [op |-> "get_zero_index", axis |-> axis, ret |-> Value(get_zero_index(axis))]

\* ------------------------------------------------------------- zero peak
Peak == 80

\* intensities: nothing, the half of the peak, a little above it, the peak
Counts == {0, Peak \div 2, Peak \div 2 + 3, Peak}

Spectra == UNION {[1..n -> Counts] : n \in 0..MaxChannel}

\* the float 0.05
Float005 == FRound(One, 20)

\* y_values[i] as a float, i counted from 0
YAt(y, i) == FromInt(y[i + 1])

\* data_functions.py:320-332, conversion_functions.py:52-64  the loop from
\* channel i on: the first channel within tolerance of the half height, or
\* the first below it (then the closer of it and the channel before, except
\* right after zero_index); zero_index when the loop ends without a break
RECURSIVE FindHalfMax(_, _, _, _, _)
FindHalfMax(y, half, tolerance, zero_index, i) ==
    IF i >= Len(y)
    THEN zero_index
    ELSE IF Abs(FAdd(YAt(y, i), 0 - half)) <= tolerance
    THEN i
    ELSE IF YAt(y, i) < half
    THEN IF i > zero_index + 1
         THEN IF Abs(FAdd(YAt(y, i), 0 - half)) < Abs(FAdd(YAt(y, i - 1), 0 - half)) THEN i ELSE i - 1
         ELSE i
    ELSE FindHalfMax(y, half, tolerance, zero_index, i + 1)

\* data_functions.py:291-292  float(spectrum_data[zero_index]) / 2
get_half_zero_height(y, zero_index) == FDiv(FromInt(y[zero_index + 1]), FromInt(2))

\* data_functions.py:316  5% of the half height
Tolerance(half_zero_height) == FMul(half_zero_height, Float005)

\* data_functions.py:336-337  modified_data[i] = 1 for i in 0..half_max_index
ZeroOut(y, half_max_index) == [k \in 1..Len(y) |-> IF k - 1 <= half_max_index THEN 1 ELSE y[k]]

\* data_functions.py:298-343  with a zero_index past the end the assignment
\* of line 337 raises IndexError, which is caught and None returned
remove_zero_peak(y, half_zero_height, zero_index) ==
    LET half_max_index == FindHalfMax(y, half_zero_height, Tolerance(half_zero_height), zero_index, zero_index + 1)
    IN  IF half_max_index >= Len(y) THEN Nothing ELSE Some(ZeroOut(y, half_max_index))

Containers == {"list", "ndarray"}

\* conversion_functions.py:45  spectrum_data[self.zero_index]: zero_index is
\* the float of line 31, and a float is no index: a list raises TypeError,
\* an array IndexError.  Lines 46-66 are never reached.
calculate_fwhm(self, spectrum_data, container) == IF container = "list" THEN Raise("TypeError") ELSE Raise("IndexError")

\* One remove_zero_peak call; half_zero_height is what get_half_zero_height
\* gives for the spectrum.  half_max_index is the local of that name.
RemoveZeroPeak ==
    /\ call = NoCall
    /\ \E y \in Spectra \ {<<>>} : \E zero_index \in 0..Len(y) :
        LET half == IF zero_index < Len(y) THEN get_half_zero_height(y, zero_index) ELSE FromInt(0)
        IN  call' = [op |-> "remove_zero_peak", y |-> y, zero_index |-> zero_index, half_zero_height |-> half,
                     half_max_index |-> FindHalfMax(y, half, Tolerance(half), zero_index, zero_index + 1),
                     y_after |-> y,
                     ret |-> Value(remove_zero_peak(y, half, zero_index))]

\* One calculate_fwhm call on a converter that was constructed.
CalculateFwhm ==
    /\ call = NoCall
    /\ \E offset \in AxisValues, scale \in AxisValues \ {0}, y \in Spectra, container \in Containers :
        LET conv == SpectrumConverter(offset, scale).val
        IN  call' = [op |-> "calculate_fwhm", converter |-> conv, y |-> y,
                     ret |-> calculate_fwhm(conv, y, container)]

\* ----------------------------------------------------------- peak width
\* file_service.py:69-115 (legacy mode, user_id None)  a missing file is a
\* ValueError (101-102); for a file that exists line 104 calls
\* file_functions.get_cached_file(filepath, signal_idx), two arguments for
\* the one parameter of file_functions.py:37, which is a TypeError; the
\* handler of 111-115 raises it again.
get_or_load_file(exists) == IF exists THEN Raise("TypeError") ELSE Raise("ValueError")

\* data_service.py:33-61 for the signal that was loaded: 0 when
\* get_zero_index is None; otherwise the half height and the spectrum are
\* there and line 48 calls data_functions.get_fwhm_index, a name that
\* module does not define (AttributeError).
WidthOfSignal(sig) == IF IsNone(get_zero_index(sig.axis)) THEN Value(0) ELSE Raise("AttributeError")

\* data_service.py:19-61
get_zero_peak_width(exists, sig) ==
    LET loaded == get_or_load_file(exists)
    IN  IF loaded.kind = "raise" THEN loaded ELSE WidthOfSignal(The(loaded.val))

\* signals with an energy axis and the summed spectrum, one value per
\* channel of the axis
SpectrumSignals == {[axis |-> [offset |-> o, scale |-> s, size |-> Len(y)], y |-> y] : o \in AxisValues, s \in AxisValues, y \in Spectra}

\* One /zero-peak-width request for a file that is or is not on disk.
GetZeroPeakWidth ==
    /\ call = NoCall
    /\ \E exists \in BOOLEAN, sig \in SpectrumSignals :
        call' = [op |-> "get_zero_peak_width", exists |-> exists, signal |-> sig,
                 ret |-> get_zero_peak_width(exists, sig)]

cacheVars == <<CURRENT_FILE, pc, op, filepath, signal_idx, cached_data, signal, signal_type, attempts, raw, ret, lastInstall, pre, lastLoad>>

userVars == <<dir_exists, ctime, birth, has_file, posix, upc, uop, user_id, current_count, listed, oldest_dir, uret, events, upre>>

vars == <<cacheVars, userVars, call>>

Init == CacheInit /\ UserInit /\ ArrayInit

\* Cache requests; threads interleave statement by statement.
Next == \E t \in Threads : Step(t) /\ UNCHANGED <<pre, lastLoad>> /\ UNCHANGED userVars /\ UNCHANGED call

Spec == Init /\ [][Next]_vars

\* One cache request at a time: a thread moves only while every other is
\* idle.
SeqNext == \E t \in Threads : OthersIdle(t) /\ Step(t) /\ Record(t) /\ UNCHANGED userVars /\ UNCHANGED call

SeqSpec == Init /\ [][SeqNext]_vars

\* Two cache requests race; no other thread is active.
Racers == {1, 2}

RaceNext == \E t \in Racers : Step(t) /\ UNCHANGED <<pre, lastLoad>> /\ UNCHANGED userVars /\ UNCHANGED call

RaceSpec == Init /\ [][RaceNext]_vars

\* The service methods that pick one signal by index, one request at a time.
SelectNext == SelectStep(1) /\ UNCHANGED <<pre, lastLoad>> /\ UNCHANGED userVars /\ UNCHANGED call

SelectSpec == Init /\ [][SelectNext]_vars

\* get_user_directory requests of two concurrent workers, interleaved call
\* by call of the file system.
UserNext == \E t \in Racers : UStep(t) /\ UNCHANGED <<events, upre>> /\ UNCHANGED cacheVars /\ UNCHANGED call

UserSpec == Init /\ [][UserNext]_vars

\* One user-directory request at a time.
UserSeqNext == \E t \in Threads : UOthersIdle(t) /\ UCopyStep(t) /\ URecord(t) /\ UNCHANGED cacheVars /\ UNCHANGED call

UserSeqSpec == Init /\ [][UserSeqNext]_vars

\* Region extractions of a 3D signal, one call after another.
RegionNext == (ExtractRegion \/ CallReturn) /\ UNCHANGED <<cacheVars, userVars>>

RegionSpec == Init /\ [][RegionNext]_vars

\* Region extractions of a region and of the two parts of a split of it.
SplitNext == (ExtractSplit \/ CallReturn) /\ UNCHANGED <<cacheVars, userVars>>

SplitSpec == Init /\ [][SplitNext]_vars

\* Whole-frame spectrum extractions, one call after another.
WholeNext == (ExtractWhole \/ CallReturn) /\ UNCHANGED <<cacheVars, userVars>>

WholeSpec == Init /\ [][WholeNext]_vars

\* Image extractions, one call after another.
ImageNext == (ExtractImage(Signals) \/ CallReturn) /\ UNCHANGED <<cacheVars, userVars>>

ImageSpec == Init /\ [][ImageNext]_vars

\* Image extractions, images of a narrow integer dtype among the inputs.
PixelNext == (ExtractImage(ImageSignals) \/ CallReturn) /\ UNCHANGED <<cacheVars, userVars>>

PixelSpec == Init /\ [][PixelNext]_vars

\* Index conversions and zero-index computations, one call after another.
AxisNext == (Convert \/ ZeroIndex \/ CallReturn) /\ UNCHANGED <<cacheVars, userVars>>

AxisSpec == Init /\ [][AxisNext]_vars

\* FWHM searches and zero-peak removals, one call after another.
PeakNext == (RemoveZeroPeak \/ CalculateFwhm \/ CallReturn) /\ UNCHANGED <<cacheVars, userVars>>

PeakSpec == Init /\ [][PeakNext]_vars

\* Zero-peak width requests, one call after another.
WidthNext == (GetZeroPeakWidth \/ CallReturn) /\ UNCHANGED <<cacheVars, userVars>>

WidthSpec == Init /\ [][WidthNext]_vars

\* Region extractions of a region and of the same region with its corners
\* swapped.
SwapNext == (ExtractSwapped \/ CallReturn) /\ UNCHANGED <<cacheVars, userVars>>

SwapSpec == Init /\ [][SwapNext]_vars

\* Capability reports, each followed by both extractions.
CapabilityNext == (GetCapabilities \/ CallReturn) /\ UNCHANGED <<cacheVars, userVars>>

CapabilitySpec == Init /\ [][CapabilityNext]_vars

\* User ids put through the sanitizer, one call after another.
SanitizeNext == (SanitizeUserId \/ CallReturn) /\ UNCHANGED <<cacheVars, userVars>>

SanitizeSpec == Init /\ [][SanitizeNext]_vars

\* ---------------------------------------------------------------- claims
Done(t) == pc[t] = "done"

Decoded(t) == attempts[t] # <<>> /\ attempts[t][Len(attempts[t])].ok

AllFrom(list, path) == \A k \in 1..Len(list.items) : list.items[k].src = path

\* C1: a load_file or get_cached_file call for the path of the last
\* successful load_file returns that load's list and calls the decoder zero
\* times (checked one request at a time).
C1_CacheHitSuppressesReload == \A t \in Threads : (Done(t) /\ op[t] \in CacheOps /\ pre.last.filepath = filepath[t]) => (ret[t] = Value(pre.last.data) /\ attempts[t] = <<>>)

C1_Witness == \E t \in Threads : Done(t) /\ op[t] = "load_file" /\ pre.last.filepath = filepath[t] /\ ret[t] = Value(pre.last.data) /\ attempts[t] = <<>> /\ The(pre.last.data).items[1].by # t

\* C2: a successful load_file of q leaves the cache holding q and exactly the
\* list it decoded from q, nothing of an earlier path; a request for a path
\* other than the cached one is a miss.
C2_SingleUserReplacement == \A t \in Threads : Done(t) =>
    /\ (op[t] = "load_file" /\ ret[t].kind = "value") => (CURRENT_FILE = [filepath |-> filepath[t], data |-> ret[t].val] /\ AllFrom(The(ret[t].val), filepath[t]))
    /\ (op[t] = "load_file" /\ pre.cache.filepath # filepath[t]) => attempts[t] # <<>>
    /\ (op[t] = "get_cached_file" /\ pre.cache.filepath # filepath[t]) => ret[t] = Value(Nothing)

C2_Witness == \E t \in Threads : Done(t) /\ op[t] = "load_file" /\ ret[t].kind = "value" /\ pre.cache.filepath \in Paths \ {filepath[t]} /\ ~IsNone(pre.cache.data) /\ CURRENT_FILE = [filepath |-> filepath[t], data |-> ret[t].val]

\* C3: a load_file that raises leaves CURRENT_FILE as it was when the call
\* began.
C3_FailedLoadLeavesCache == \A t \in Threads : (Done(t) /\ op[t] = "load_file" /\ ret[t].kind = "raise") => CURRENT_FILE = pre.cache

C3_Witness == \E t \in Threads : Done(t) /\ op[t] = "load_file" /\ ret[t].kind = "raise" /\ pre.cache.filepath \in Paths \ {filepath[t]} /\ ~IsNone(pre.cache.data) /\ CURRENT_FILE = pre.cache

\* C4: when two racing load_file calls for one path have both missed and
\* both returned, each has made its own decode (two different lists), and
\* the cache holds that path with the list of the call that wrote the cache
\* last.
Missed(t) == Done(t) /\ op[t] = "load_file" /\ IsNone(cached_data[t]) /\ ret[t].kind = "value"

C4_LastWriterWins == \A t \in Racers, u \in Racers : (t # u /\ Missed(t) /\ Missed(u) /\ filepath[t] = filepath[u] /\ lastInstall = t) => (Decoded(t) /\ Decoded(u) /\ ret[u].val # ret[t].val /\ CURRENT_FILE = [filepath |-> filepath[t], data |-> ret[t].val])

C4_Witness == \E t \in Racers, u \in Racers : t # u /\ Missed(t) /\ Missed(u) /\ filepath[t] = filepath[u] /\ lastInstall = t /\ Decoded(t) /\ Decoded(u) /\ CURRENT_FILE.data = ret[t].val /\ ret[u].val # ret[t].val

\* C5: under every interleaving of load_file and get_cached_file calls, the
\* cached data a request observes was decoded from the cached path: every
\* list a request for path p receives was decoded from p.
C5_CacheNeverTorn == \A t \in Threads : (Done(t) /\ ret[t].kind = "value" /\ ~IsNone(ret[t].val)) => AllFrom(The(ret[t].val), filepath[t])

\* C6: a request with signal_index i on a list of n signals returns the signal
\* at position i when 0 <= i < n and raises for every other i.
Chosen(t) == IF op[t] = "get_spectrum_data" THEN signal[t] ELSE cached_data[t]

C6_SelectionByIndex == \A t \in Threads : (Done(t) /\ op[t] \in SelectOps /\ ~IsNone(signal_idx[t]) /\ ~IsNone(Chosen(t))) =>
    LET items == The(Chosen(t)).items
        i == The(signal_idx[t])
    IN  IF 0 <= i /\ i < Len(items) THEN ret[t] = Value(Some(items[i + 1])) ELSE ret[t].kind = "raise"

\* C9: the hints are tried in the fixed order, nothing is tried after a
\* success, and what load_file returns and caches is a list: the decoded
\* list itself, or the bare signal wrapped in a one-element list.
HintOrder == <<"auto", "EMD", "EDS_TEM", "EDS_SEM", "EELS">>

C10_TerminalFailureNoRetry == \A t \in Threads :
    /\ \A i \in 1..Len(attempts[t]), j \in 1..Len(attempts[t]) : attempts[t][i].hint = attempts[t][j].hint => i = j
    /\ (Done(t) /\ op[t] = "load_file" /\ ret[t].kind = "raise") =>
        /\ ret[t].err = "ValueError"
        /\ Len(attempts[t]) = 5
        /\ {attempts[t][i].hint : i \in 1..Len(attempts[t])} = {"auto", "EMD", "EDS_TEM", "EDS_SEM", "EELS"}
        /\ \A i \in 1..Len(attempts[t]) : ~attempts[t][i].ok

C10_Witness == \E t \in Threads : Done(t) /\ op[t] = "load_file" /\ ret[t] = Raise("ValueError") /\ Len(attempts[t]) = 5

\* C7: the number of user directories never exceeds max_users, whatever the
\* interleaving of get_user_directory calls.
C7_UserCeiling == Cardinality(dir_exists) <= max_users

\* C8: a request that admits a new user at the ceiling removes exactly one
\* directory, the one created first, and removes it before making the new
\* one; below the ceiling it removes none.
Admitted(t) == upc[t] = "done" /\ uret[t] = "ok" /\ \A i \in 1..Len(upre) : upre[i] # user_id[t]

C8_EvictsOldestCreated == \A t \in Threads : Admitted(t) =>
    IF Len(upre) >= max_users
    THEN events = <<(<<"rm", Head(upre)>>), (<<"mk", user_id[t]>>)>>
    ELSE events = <<(<<"mk", user_id[t]>>)>>

\* C11: a region extraction on a 3D signal never raises and returns a list
\* with one value per channel, whatever the four coordinates.
C11_RegionClampingNeverRaises == (call.op \in RegionOps /\ Len(call.signal.shape) = 3) => (call.ret.kind = "value" /\ Len(call.ret.val) = call.signal.shape[3])

C11_Witness == call.op \in RegionOps /\ Len(call.signal.shape) = 3 /\ call.signal.shape[3] = 2 /\ call.region.x1 >= call.signal.shape[2] /\ call.region.x2 < 0 /\ call.region.y1 > call.region.y2 /\ call.ret.kind = "value" /\ Len(call.ret.val) = 2

\* C12: a region with x1 = x2 or y1 = y2 once clamped gives a spectrum that
\* is 0 in every channel.
ZeroArea(r) == r.x1 = r.x2 \/ r.y1 = r.y2

C12_DegenerateRegionAllZero == (call.op \in RegionOps /\ Len(call.signal.shape) = 3 /\ ZeroArea(NormalizeRegion(call.region, call.signal.shape[1], call.signal.shape[2]))) => (call.ret.kind = "value" /\ \A k \in 1..Len(call.ret.val) : call.ret.val[k] = 0)

\* C13: when a region is split into two disjoint parts that cover it, its
\* spectrum is, channel by channel, the sum of the spectra of the parts.
IsSplit(r, r1, r2) == Cells(r1) \cap Cells(r2) = {} /\ Cells(r1) \cup Cells(r2) = Cells(r)

C13_RegionSumDecomposes == (call.op = "extract_spectrum_range x3" /\ IsSplit(call.region, call.part1, call.part2)) =>
    /\ call.ret.kind = "value" /\ call.ret1.kind = "value" /\ call.ret2.kind = "value"
    /\ \A k \in 1..Len(call.ret.val) : call.ret.val[k] = call.ret1.val[k] + call.ret2.val[k]

\* C14: the whole-frame spectrum of a 1D signal is its data, value by
\* value; that of a 3D signal has one value per channel, the sum of the
\* channel over all height x width pixels; any other dimensionality raises
\* ValueError.
C14_WholeFrameSpectrum == call.op = "extract_whole_spectrum_data" =>
    LET sig == call.signal
        n == Len(sig.shape)
    IN  IF n = 1
        THEN call.ret.kind = "value" /\ Len(call.ret.val) = sig.shape[1] /\ \A i \in 1..sig.shape[1] : call.ret.val[i] = At(sig, <<i - 1>>)
        ELSE IF n = 3
        THEN /\ call.ret.kind = "value"
             /\ Len(call.ret.val) = sig.shape[3]
             /\ \A k \in 1..sig.shape[3] : call.ret.val[k] = SumFn([y \in 0..(sig.shape[1] - 1) |-> SumFn([x \in 0..(sig.shape[2] - 1) |-> At(sig, <<y, x, k - 1>>)], 0..(sig.shape[2] - 1))], 0..(sig.shape[1] - 1))
        ELSE call.ret = Raise("ValueError")

C14_Witness == call.op = "extract_whole_spectrum_data" /\ call.signal.shape = <<2, 2, 2>> /\ call.signal.v0 = 1 /\ call.signal.coef = <<1, 0, 1>> /\ call.ret = Value(<<6, 10>>)

\* C15: the image of a 2D signal is its data; each pixel of the image of a
\* 3D signal is the sum of that pixel over all channels, so the image has
\* shape (height, width); any other dimensionality raises ValueError.
C15_ImageByDimensionality == call.op = "extract_image_data_from_signal" =>
    LET sig == call.signal
        n == Len(sig.shape)
    IN  IF n \in {2, 3}
        THEN /\ call.ret.kind = "value"
             /\ call.ret.val.data_shape = <<sig.shape[1], sig.shape[2]>>
             /\ DOMAIN The(call.image_data) = (0..(sig.shape[1] - 1)) \X (0..(sig.shape[2] - 1))
             /\ DOMAIN call.ret.val.image_data = DOMAIN The(call.image_data)
             /\ \A y \in 0..(sig.shape[1] - 1), x \in 0..(sig.shape[2] - 1) :
                    The(call.image_data)[<<y, x>>] = IF n = 2 THEN At(sig, <<y, x>>) ELSE SumFn([k \in 1..sig.shape[3] |-> At(sig, <<y, x, k - 1>>)], 1..sig.shape[3])
        ELSE call.ret = Raise("ValueError")

C15_Witness == call.op = "extract_image_data_from_signal" /\ call.signal.shape = <<2, 1, 2>> /\ call.signal.v0 = 1 /\ call.signal.coef = <<1, 0, 1>> /\ The(call.image_data) = [p \in {<<0, 0>>, <<1, 0>>} |-> IF p[1] = 0 THEN 3 ELSE 5]

\* C16: a normalized image that was not flat has minimum 0 and maximum 255,
\* all its values within 0..255, and keeps the order of the pixels.
NonFlat(img) == DOMAIN img # {} /\ ImageMax(img) > ImageMin(img)

C16_NormalizationRange == (call.op \in ImageOps /\ ~IsNone(call.image_data) /\ NonFlat(The(call.image_data)) /\ ~IsNone(call.ret.val)) =>
    LET img == The(call.image_data)
        out == call.ret.val.image_data
    IN  /\ ImageMin(out) = 0
        /\ ImageMax(out) = 255
        /\ \A p \in DOMAIN out : 0 <= out[p] /\ out[p] <= 255
        /\ \A p \in DOMAIN img, q \in DOMAIN img : img[p] >= img[q] => out[p] >= out[q]

\* C17: a flat image comes back unmodified: every pixel of the output is the
\* constant of the input.
C17_FlatImageUnmodified == (call.op \in ImageOps /\ ~IsNone(call.image_data) /\ DOMAIN The(call.image_data) # {} /\ ~NonFlat(The(call.image_data)) /\ ~IsNone(call.ret.val)) => call.ret.val.image_data = The(call.image_data)

RoundTrip == call.op = "to_original_index" /\ call.ret.kind = "value"

RoundTripError == Abs(call.ret.val - FromInt(call.original_index))

\* C18: for an axis with scale # 0 and an integer index i,
\* to_original_index(to_true_index(i)) is i within floating-point tolerance:
\* it differs from i by at most 2^-Precision * (8 |i| + 2 |offset / scale|).
C18_RoundTripWithinTolerance == RoundTrip => RoundTripError * Abs(call.scale) * 2^Precision <= 8 * Abs(FromInt(call.original_index)) * Abs(call.scale) + 2 * Abs(call.offset) * One

C18_Witness == RoundTrip /\ call.scale # 0 /\ call.offset # 0 /\ call.original_index > 1 /\ RoundTripError # 0 /\ C18_RoundTripWithinTolerance

\* C18 as stated: to_original_index(to_true_index(i)) equals i.
C18_RoundTripExact == RoundTrip => call.ret.val = FromInt(call.original_index)

ScaleOf(c) == IF c.op = "get_zero_index" THEN c.axis.scale ELSE c.scale

OffsetOf(c) == IF c.op = "get_zero_index" THEN c.axis.offset ELSE c.offset

\* C19: for an axis with scale = 0, converting an energy to an index fails
\* with an error for every input; it never returns an index, infinity or a
\* silent None.
C19_ZeroScaleIsError == (call.op \in {"to_original_index", "get_zero_index"} /\ ScaleOf(call) = 0) => call.ret.kind = "raise"

C19_Witness == call.op = "get_zero_index" /\ call.axis.scale = 0 /\ call.axis.size > 0 /\ call.ret = Value(Nothing)

\* the integer round(-offset / scale) when it is a channel of the axis
RoundedZero(offset, scale, size) == LET z == PyRound(FDiv(0 - offset, scale)) IN IF 0 <= z /\ z <= size - 1 THEN Some(z) ELSE Nothing

\* C20: for an axis with scale # 0, zero_index is the integer
\* round(-offset / scale) when that lies in [0, size - 1] and None otherwise:
\* get_zero_index returns exactly that, and the zero_index of a converter
\* is a whole number that is not negative.
C20_ZeroIndexIsValidChannel ==
    /\ (call.op = "get_zero_index" /\ call.axis.scale # 0) => call.ret = Value(RoundedZero(call.axis.offset, call.axis.scale, call.axis.size))
    /\ (call.op = "to_original_index" /\ call.scale # 0) => (call.converter.val.zero_index >= 0 /\ call.converter.val.zero_index % One = 0)

C20_Witness == call.op = "to_original_index" /\ call.scale > 0 /\ call.offset < 0 /\ call.converter.val.zero_index % One # 0

\* C21: whenever the zero crossing of the axis lies outside the captured
\* channels (zero_index is None), get_zero_peak_width of a file that exists
\* returns width 0 and raises no error, whatever the spectrum values.
C21_UndefinedZeroPeakSentinel == (call.op = "get_zero_peak_width" /\ call.exists /\ call.signal.axis.scale # 0 /\ IsNone(get_zero_index(call.signal.axis))) => call.ret = Value(0)

C21_Witness == call.op = "get_zero_peak_width" /\ call.exists /\ call.signal.axis.scale > 0 /\ call.signal.axis.offset > 0 /\ Len(call.signal.y) > 1 /\ IsNone(get_zero_index(call.signal.axis)) /\ call.ret.kind = "raise"

\* The search rule in exact arithmetic, for integer intensities: with
\* height h = y[z], channel i is within tolerance when
\* |y[i] - h/2| <= h/20 and below the half height when y[i] < h/2.
WithinTolerance(y, z, i) == 20 * Abs(2 * y[i + 1] - y[z + 1]) <= 2 * y[z + 1]

BelowHalf(y, z, i) == 2 * y[i + 1] < y[z + 1]

HalfDistance(y, z, i) == Abs(2 * y[i + 1] - y[z + 1])

Stops(y, z) == {i \in (z + 1)..(Len(y) - 1) : WithinTolerance(y, z, i) \/ BelowHalf(y, z, i)}

FirstStop(y, z) == CHOOSE i \in Stops(y, z) : \A j \in Stops(y, z) : i <= j

\* r is a result the rule allows for spectrum y and zero index z (both
\* channels are allowed when i and i-1 are equally close)
IsFwhmIndex(y, z, r) ==
    IF Stops(y, z) = {}
    THEN r = z
    ELSE LET i == FirstStop(y, z)
         IN  IF WithinTolerance(y, z, i)
             THEN r = i
             ELSE r \in {i, i - 1} /\ HalfDistance(y, z, r) <= HalfDistance(y, z, i) /\ HalfDistance(y, z, r) <= HalfDistance(y, z, i - 1)

\* C22: with height = spectrum[zero_index], half_height = height / 2 and
\* tolerance = 5% of height, the FWHM search returns the first channel after
\* zero_index that is within tolerance of half_height, or at the first
\* channel below half_height the closer of it and its predecessor; the
\* result r satisfies zero_index <= r < len(spectrum).
C22_FwhmSearchRule ==
    /\ (call.op = "remove_zero_peak" /\ call.zero_index < Len(call.y)) =>
           (IsFwhmIndex(call.y, call.zero_index, call.half_max_index) /\ call.zero_index <= call.half_max_index /\ call.half_max_index < Len(call.y))
    /\ (call.op = "calculate_fwhm" /\ call.y # <<>> /\ call.converter.zero_index % One = 0 /\ Trunc(call.converter.zero_index) \in 0..(Len(call.y) - 1)) =>
           (call.ret.kind = "value" /\ IsFwhmIndex(call.y, Trunc(call.converter.zero_index), call.ret.val))

C22_Witness == call.op = "remove_zero_peak" /\ call.y = <<Peak, Peak \div 2 + 3, Peak>> /\ call.zero_index = 0 /\ call.half_max_index = 0

\* no channel after z is within tolerance of the half height or below it
NoFalloff(y, z) == Stops(y, z) = {}

\* C23: if no channel after zero_index is within tolerance of half_height
\* or below it (every constant positive spectrum), fwhm_index equals
\* zero_index and get_zero_peak_width returns the width 0.
C23_NoFalloffZeroWidth == (call.op = "get_zero_peak_width" /\ call.exists /\ call.signal.axis.scale # 0 /\ ~IsNone(get_zero_index(call.signal.axis)) /\ NoFalloff(call.signal.y, The(get_zero_index(call.signal.axis)))) => call.ret = Value(0)

C23_Witness == call.op = "get_zero_peak_width" /\ call.exists /\ call.signal.y = <<Peak, Peak, Peak, Peak>> /\ get_zero_index(call.signal.axis) = Some(2) /\ call.ret.kind = "raise"

\* C29: remove_zero_peak returns a new list that is 0 at every channel from
\* the first through the FWHM index and equals the input at every channel
\* after it, and the caller's spectrum is left as it was.
C29_ZeroPeakRemoved == (call.op = "remove_zero_peak" /\ call.zero_index < Len(call.y)) =>
    /\ call.ret = Value(Some([k \in 1..Len(call.y) |-> IF k - 1 <= call.half_max_index THEN 0 ELSE call.y[k]]))
    /\ call.y_after = call.y

C29_Witness == call.op = "remove_zero_peak" /\ call.y = <<Peak, 0, Peak>> /\ call.zero_index = 0 /\ call.ret = Value(Some(<<1, 1, Peak>>))

\* C26: for every 3D signal and all integers x1, y1, x2, y2, extracting the
\* region returns the same spectrum as extracting it with the x pair
\* swapped, with the y pair swapped, or with both swapped.
C26_CornerOrderIrrelevant == call.op = "extract_spectrum_range x4" => (call.ret.kind = "value" /\ call.retx = call.ret /\ call.rety = call.ret /\ call.retxy = call.ret)

C26_Witness == call.op = "extract_spectrum_range x4" /\ call.region.x1 > call.region.x2 /\ call.region.y1 > call.region.y2 /\ call.region.x2 >= 0 /\ call.signal.shape = <<2, 2, 2>> /\ call.ret = Value(<<6, 10>>) /\ call.retxy = call.ret

\* C30: for every signal with data, get_signal_capabilities reports
\* hasSpectrum exactly when the whole-frame spectrum extraction succeeds on
\* it (1 or 3 dimensions) and hasImage exactly when the image extraction
\* succeeds on it (2 or 3 dimensions).
C30_CapabilitiesMatchExtractors == call.op = "get_signal_capabilities" =>
    /\ call.ret.hasSpectrum <=> call.spectrum.kind = "value"
    /\ call.ret.hasSpectrum <=> Len(call.signal.shape) \in {1, 3}
    /\ call.ret.hasImage <=> call.image.kind = "value"
    /\ call.ret.hasImage <=> Len(call.signal.shape) \in {2, 3}

C30_Witness == call.op = "get_signal_capabilities" /\ call.signal.shape = <<2, 2>> /\ ~call.ret.hasSpectrum /\ call.ret.hasImage /\ call.spectrum = Raise("ValueError") /\ call.image.kind = "value"

\* C24: an unsupported dimensionality reaches the caller of every image
\* operation as an error; no operation turns it into a normal return value
\* such as None.
C24_ErrorsPropagate ==
    /\ (call.op = "get_haadf_data" /\ Len(call.signal.shape) # 2) => call.ret.kind = "raise"
    /\ (call.op = "extract_image_data_from_signal" /\ Len(call.signal.shape) \notin {2, 3}) => call.ret.kind = "raise"

C24_Witness == call.op = "get_haadf_data" /\ call.signal.shape = <<2, 2, 2>> /\ call.ret = Value(Nothing)

\* C25: the cache keeps one entry per scope: a get-or-load for the file of
\* one user (path q) leaves the entry cached for another user's file (path
\* p) as it was, so that user's next request is still a hit.
C25_ScopeIsolation == \A t \in Threads : (Done(t) /\ op[t] = "load_file" /\ ret[t].kind = "value" /\ pre.cache.filepath \in Paths \ {filepath[t]} /\ ~IsNone(pre.cache.data)) => (CURRENT_FILE = pre.cache \/ FilepathMatches(CURRENT_FILE, pre.cache.filepath))

C25_Witness == \E t \in Threads : Done(t) /\ op[t] = "load_file" /\ filepath[t] = "q" /\ ret[t].kind = "value" /\ pre.cache.filepath = "p" /\ ~IsNone(pre.cache.data) /\ CURRENT_FILE.filepath = "q" /\ ~FilepathMatches(CURRENT_FILE, "p")

Tracked(t) == upc[t] = "done" /\ \E i \in 1..Len(upre) : upre[i] = user_id[t]

\* C27: a get_user_directory request for a user whose directory already
\* exists removes no user directory and makes none, whatever the current
\* user count.
C27_TrackedUserEvictsNobody == \A t \in Threads : Tracked(t) => events = <<>>

C27_Witness == \E t \in Threads : Tracked(t) /\ uop[t] = "get_user_directory" /\ Len(upre) = max_users /\ Head(upre) # user_id[t] /\ events = <<(<<"rm", Head(upre)>>)>> /\ uret[t] = "ok"

\* C28: for every input, _sanitize_user_id raises ValueError or returns a
\* string of 3 to 50 characters, each a letter, a digit, an underscore or a
\* hyphen, that contains none of the rejected SQL patterns.
C28_SanitizedIdIsSafe == (call.op = "_sanitize_user_id" /\ call.ret # Raise("ValueError")) =>
    /\ call.ret.kind = "value"
    /\ Len(call.ret.val) >= MinIdLen /\ Len(call.ret.val) <= MaxIdLen
    /\ \A i \in 1..Len(call.ret.val) : IsAlnum(call.ret.val[i]) \/ call.ret.val[i] \in {"_", "-"}
    /\ \A pattern \in sql_injection_patterns : ~Contains(call.ret.val, pattern)

C28_Witness == call.op = "_sanitize_user_id" /\ call.user_id = Some(<<"s", "p", "_", "c">>) /\ call.ret = Value(<<"s", "p", "_", "c">>)

====
